---- MODULE Spec2Model ----
(***************************************************************************)
(* Model of massa-models/src/output_event.rs: the smart-contract output    *)
(* event identity SCOutputEventId with its byte and base58-check codecs,   *)
(* and the EventExecutionContext / SCOutputEvent records.                  *)
(*                                                                         *)
(* Bytes are naturals in 0..255, byte arrays are sequences of bytes, and a *)
(* string is a sequence of one-character strings.                          *)
(***************************************************************************)
EXTENDS Integers, Sequences, FiniteSets, TLC

(***************************************************************************)
(* Sizes.                                                                  *)
(***************************************************************************)
\* settings::EVENT_ID_SIZE_BYTES, the width of the digest behind an identity.
EVENT_ID_SIZE_BYTES == 32

\* massa_hash: HASH_SIZE_BYTES, the width Hash::from_bytes accepts.
HASH_SIZE_BYTES == EVENT_ID_SIZE_BYTES

\* bs58: the number of checksum bytes a checked encoding appends.
CHECKSUM_LEN == 4

\* How many of the byte values of ByteChoice the digests are built from.
NumByteVals == 2

\* The longest call stack an execution context is constructed with.
MaxCallStack == 3

\* How many distinct addresses appear in call stacks.
NumAddresses == 2

(***************************************************************************)
(* Result<T, E> and the error kinds.                                       *)
(***************************************************************************)
NoValue == [hash |-> <<>>]

Ok(v) == [ok |-> TRUE, val |-> v, err |-> "none"]

Err(e) == [ok |-> FALSE, val |-> NoValue, err |-> e]

\* Result::map_err(|_| c): every error becomes the constant c.
map_err(r, c) == IF r.ok THEN r ELSE Err(c)

\* `?` in a function returning Result<_, ModelsError> applied to a
\* Result<_, MassaHashError>: the error goes through
\* From<MassaHashError> for ModelsError, which wraps the hash error in the
\* variant ModelsError::MassaHashError; it is not ModelsError::HashError,
\* which takes an explicit map_err to build.
ModelsError_from(r) == IF r.ok THEN r ELSE Err("MassaHashError")

(***************************************************************************)
(* base58 (bs58 crate, bitcoin alphabet).                                  *)
(***************************************************************************)
Alphabet ==
  << "1","2","3","4","5","6","7","8","9",
     "A","B","C","D","E","F","G","H","J","K","L","M","N","P","Q","R","S","T",
     "U","V","W","X","Y","Z",
     "a","b","c","d","e","f","g","h","i","j","k","m","n","o","p","q","r","s",
     "t","u","v","w","x","y","z" >>

\* Characters that occur in inputs but are not base58 digits.
NonAlphabet == {"0", "O", "I", "l"}

Chars == {Alphabet[i] : i \in 1..58} \cup NonAlphabet

\* alpha.decode[c]: the digit value of c, 255 when c is no digit.
AlphaDecode ==
  [c \in Chars |->
     IF c \in NonAlphabet THEN 255
     ELSE (CHOOSE i \in 1..58 : Alphabet[i] = c) - 1]

Reverse(s) == [i \in 1..Len(s) |-> s[Len(s) + 1 - i]]

RECURSIVE LeadingCount(_, _)
\* input.iter().take_while(|v| v == z).count()
LeadingCount(s, z) ==
  IF s = <<>> \/ Head(s) # z THEN 0 ELSE 1 + LeadingCount(Tail(s), z)

Zeros(n) == [i \in 1..n |-> 0]

RECURSIVE CarryLoop(_, _, _, _, _)
\* The inner loops of encode_into / decode_into over the little-endian
\* output built so far: every cell takes (carry + cell * mul) mod base, the
\* quotient moves on, and the remaining carry is pushed cell by cell.
CarryLoop(out, i, carry, mul, base) ==
  IF i <= Len(out)
  THEN LET c == carry + out[i] * mul
       IN CarryLoop([out EXCEPT ![i] = c % base], i + 1, c \div base, mul, base)
  ELSE IF carry > 0
       THEN CarryLoop(Append(out, carry % base), i + 1, carry \div base, mul, base)
       ELSE out

RECURSIVE EncodeDigits(_, _)
\* encode_into: the outer loop over the input bytes, most significant first.
\* Taking Len(o) settles the digits of one byte before the next is read.
EncodeDigits(input, out) ==
  IF input = <<>> THEN out
  ELSE LET o == CarryLoop(out, 1, Head(input), 256, 58)
       IN IF Len(o) >= 0 THEN EncodeDigits(Tail(input), o) ELSE o

\* bs58::encode(input).into_string()
bs58_encode(input) ==
  LET digits == EncodeDigits(input, <<>>) \o Zeros(LeadingCount(input, 0))
      rev    == Reverse(digits)
  IN [i \in 1..Len(rev) |-> Alphabet[rev[i] + 1]]

RECURSIVE DecodeBytes(_, _)
\* decode_into: the outer loop over the digit values of the characters.
DecodeBytes(vals, out) ==
  IF vals = <<>> THEN out
  ELSE LET o == CarryLoop(out, 1, Head(vals), 58, 256)
       IN IF Len(o) >= 0 THEN DecodeBytes(Tail(vals), o) ELSE o

\* bs58::decode(input).into_vec(): Err on a character outside the alphabet.
bs58_decode(input) ==
  LET vals == [i \in 1..Len(input) |-> AlphaDecode[input[i]]]
  IN IF \E i \in 1..Len(input) : vals[i] = 255
     THEN Err("InvalidCharacter")
     ELSE Ok(Reverse(DecodeBytes(vals, <<>>) \o Zeros(LeadingCount(input, "1"))))

RECURSIVE WeightedSum(_, _, _)
WeightedSum(data, i, k) ==
  IF i > Len(data) THEN 0
  ELSE ((i + k) * (data[i] + k) + WeightedSum(data, i + 1, k)) % 256

\* The check bytes of a payload.  bs58 takes the first CHECKSUM_LEN bytes of
\* the double SHA-256 of the payload; the digest is stood in for by
\* position-weighted sums, which likewise depend on every byte and on the
\* length of the payload.
checksum(data) ==
  [k \in 1..CHECKSUM_LEN |-> (WeightedSum(data, 1, k) + 31 * k + Len(data)) % 256]

\* bs58::encode(input).with_check().into_string()
bs58_encode_check(input) == bs58_encode(input \o checksum(input))

\* bs58::decode(input).with_check(None).into_vec()
bs58_decode_check(input) ==
  LET raw == bs58_decode(input)
  IN IF ~raw.ok THEN raw
     ELSE IF Len(raw.val) < CHECKSUM_LEN THEN Err("NoChecksum")
     ELSE LET n       == Len(raw.val) - CHECKSUM_LEN
              payload == SubSeq(raw.val, 1, n)
              given   == SubSeq(raw.val, n + 1, Len(raw.val))
          IN IF given = checksum(payload) THEN Ok(payload)
             ELSE Err("InvalidChecksum")

(***************************************************************************)
(* massa_hash::hash::Hash: a digest of HASH_SIZE_BYTES bytes.              *)
(***************************************************************************)
\* Hash::to_bytes(&self): the digest's own bytes, as an array.
Hash_to_bytes(h) == [i \in 1..HASH_SIZE_BYTES |-> h[i]]

\* Hash::into_bytes(self)
Hash_into_bytes(h) == [i \in 1..HASH_SIZE_BYTES |-> h[i]]

\* Hash::from_bytes(&[u8; HASH_SIZE_BYTES]): every array of the right width
\* is a digest.
Hash_from_bytes(data) ==
  IF Len(data) = HASH_SIZE_BYTES THEN Ok(data) ELSE Err("ParsingError")

\* Hash::to_bs58_check(&self)
Hash_to_bs58_check(h) == bs58_encode_check(Hash_to_bytes(h))

\* Hash::from_bs58_check(&str): decode and verify the checksum, then the
\* payload must have exactly the digest's width; both failures are
\* MassaHashError::ParsingError.
Hash_from_bs58_check(data) ==
  LET decoded == bs58_decode_check(data)
  IN IF ~decoded.ok THEN Err("ParsingError")
     ELSE IF Len(decoded.val) # HASH_SIZE_BYTES THEN Err("ParsingError")
     ELSE Hash_from_bytes(decoded.val)

\* impl FromStr for Hash
Hash_from_str(s) == Hash_from_bs58_check(s)

RECURSIVE Hash_cmp(_, _)
\* Ord for Hash: the byte arrays compared element by element, the first
\* difference decides.
Hash_cmp(a, b) ==
  IF a = <<>> /\ b = <<>> THEN "Equal"
  ELSE IF a = <<>> THEN "Less"
  ELSE IF b = <<>> THEN "Greater"
  ELSE IF Head(a) < Head(b) THEN "Less"
  ELSE IF Head(a) > Head(b) THEN "Greater"
  ELSE Hash_cmp(Tail(a), Tail(b))

\* PartialEq for Hash: all bytes equal.
Hash_eq(a, b) == Len(a) = Len(b) /\ \A i \in 1..Len(a) : a[i] = b[i]

\* std::hash::Hash for Hash: what the digest feeds to a Hasher.
Hash_hash(h) == Hash_to_bytes(h)

(***************************************************************************)
(* SCOutputEventId(pub Hash)                                               *)
(***************************************************************************)
SCOutputEventId(h) == [hash |-> h]

\* Ok(SCOutputEventId(r?)) for a result r whose error is already a
\* ModelsError.
WrapId(r) == IF r.ok THEN Ok(SCOutputEventId(r.val)) ELSE Err(r.err)

\* impl FromStr for SCOutputEventId: Hash::from_str(s)?
SCOutputEventId_from_str(s) == WrapId(ModelsError_from(Hash_from_str(s)))

\* to_bytes putting a length prefix in front of the digest.
Mutant_to_bytes(e) == <<HASH_SIZE_BYTES>> \o Hash_to_bytes(e.hash)

SCOutputEventId_to_bytes(e) == Hash_to_bytes(e.hash)

\* into_bytes giving the digest in the opposite byte order.
Mutant_into_bytes(e) == Reverse(Hash_into_bytes(e.hash))

SCOutputEventId_into_bytes(e) == Hash_into_bytes(e.hash)

\* from_bytes reading the array in the opposite byte order.
Mutant_from_bytes(data) ==
  WrapId(map_err(Hash_from_bytes(Reverse(data)), "HashError"))

SCOutputEventId_from_bytes(data) ==
  WrapId(map_err(Hash_from_bytes(data), "HashError"))

\* from_bs58_check decoding the text without verifying its checksum.
Mutant_from_bs58_check(data) ==
  LET raw == bs58_decode(data)
  IN IF raw.ok /\ Len(raw.val) = HASH_SIZE_BYTES + CHECKSUM_LEN
     THEN Ok(SCOutputEventId(SubSeq(raw.val, 1, HASH_SIZE_BYTES)))
     ELSE Err("HashError")

SCOutputEventId_from_bs58_check(data) ==
  WrapId(map_err(Hash_from_bs58_check(data), "HashError"))

\* to_bs58_check encoding the digest without its checksum.
Mutant_to_bs58_check(e) == bs58_encode(Hash_to_bytes(e.hash))

SCOutputEventId_to_bs58_check(e) == Hash_to_bs58_check(e.hash)

\* Equality that looks at the first byte only.
Mutant_eq(a, b) == a.hash[1] = b.hash[1]

\* derive(PartialEq, Eq)
SCOutputEventId_eq(a, b) == Hash_eq(a.hash, b.hash)

\* An order that compares the digests from their last byte.
Mutant_cmp(a, b) == Hash_cmp(Reverse(a.hash), Reverse(b.hash))

\* derive(PartialOrd, Ord)
SCOutputEventId_cmp(a, b) == Hash_cmp(a.hash, b.hash)

\* derive(Hash), used as it is by the containers of PreHashed keys.
SCOutputEventId_hash(e) == Hash_hash(e.hash)

(***************************************************************************)
(* EventExecutionContext and SCOutputEvent                                 *)
(***************************************************************************)
EventExecutionContext(slot, block, read_only, index_in_slot, call_stack) ==
  [slot |-> slot, block |-> block, read_only |-> read_only,
   index_in_slot |-> index_in_slot, call_stack |-> call_stack]

\* VecDeque<Address>::clone: the same elements, front to back.
VecDeque_clone(q) == [i \in 1..Len(q) |-> q[i]]

\* A clone that gives the call stack most recent first.
Mutant_context_clone(c) ==
  [slot |-> c.slot, block |-> c.block, read_only |-> c.read_only,
   index_in_slot |-> c.index_in_slot,
   call_stack |-> Reverse(c.call_stack)]

\* derive(Clone) for EventExecutionContext: every field cloned.
EventExecutionContext_clone(c) ==
  [slot |-> c.slot, block |-> c.block, read_only |-> c.read_only,
   index_in_slot |-> c.index_in_slot,
   call_stack |-> VecDeque_clone(c.call_stack)]

SCOutputEvent(id_, context, data) ==
  [id |-> id_, context |-> context, data |-> data]

\* derive(Clone) for SCOutputEvent
SCOutputEvent_clone(ev) ==
  [id |-> ev.id, context |-> EventExecutionContext_clone(ev.context),
   data |-> ev.data]

(***************************************************************************)
(* Inputs.                                                                 *)
(***************************************************************************)
\* Byte values the digests are built from: the extremes first.
ByteChoice == <<0, 255, 1, 128, 57>>

ByteVals == {ByteChoice[i] : i \in 1..NumByteVals}

MidPos == (EVENT_ID_SIZE_BYTES \div 2) + 1

\* A digest that varies in its first, middle and last byte.  The bytes before
\* the middle are zero, so that a zero first byte gives a run of leading
\* zeros; the bytes after it are a fixed non-zero pattern.
Digest(a, b, c) ==
  [i \in 1..EVENT_ID_SIZE_BYTES |->
     IF i = 1 THEN a
     ELSE IF i = MidPos THEN b
     ELSE IF i = EVENT_ID_SIZE_BYTES THEN c
     ELSE IF i > MidPos THEN (i * 37) % 256
     ELSE 0]

Digests == {Digest(a, b, c) : a \in ByteVals, b \in ByteVals, c \in ByteVals}

Ids == {SCOutputEventId(h) : h \in Digests}

\* The character after c in the alphabet, cyclically.
NextChar(c) == Alphabet[((AlphaDecode[c] + 1) % 58) + 1]

\* s with the character at position i changed to another base58 digit.
Flip(s, i) == [s EXCEPT ![i] = NextChar(s[i])]

\* Strings handed to the text decoders for the identity e: its canonical
\* text, the text with one character changed, with a character outside the
\* alphabet, truncated, extended, too short to hold a checksum, the checked
\* encoding of a payload of the wrong width, the unchecked encoding, and the
\* canonical text of the identity with the digest reversed.
StrInputs(e) ==
  LET b   == SCOutputEventId_to_bytes(e)
      enc == SCOutputEventId_to_bs58_check(e)
      n   == Len(enc)
  IN { enc,
       Flip(enc, 1), Flip(enc, (n \div 2) + 1), Flip(enc, n),
       [enc EXCEPT ![1] = "0"], enc \o <<"l">>,
       SubSeq(enc, 1, n - 1), enc \o <<"1">>, <<"1">> \o enc,
       <<>>, <<"1", "1">>, <<"z">>,
       bs58_encode_check(SubSeq(b, 1, Len(b) - 1)),
       bs58_encode_check(b \o <<0>>),
       bs58_encode(b),
       SCOutputEventId_to_bs58_check(SCOutputEventId(Reverse(b))) }

Addresses == 1..NumAddresses

\* Call stacks: every sequence of addresses up to MaxCallStack long,
\* repeated and unsorted addresses included.
CallStacks == UNION {[1..n -> Addresses] : n \in 0..MaxCallStack}

NoEvent == "none"

NoBlock == "None"

SomeBlock == "Some(block)"

(***************************************************************************)
(* State.                                                                  *)
(*   id     the identity the operations are applied to                     *)
(*   input  the argument the operations are called with: [kind, v]         *)
(*   op     the last operation applied, "new" after construction           *)
(*   ret    what the last operation returned                               *)
(*   event  the SCOutputEvent constructed, NoEvent when none is            *)
(*   copy   the last clone taken of the event or of its context            *)
(***************************************************************************)
VARIABLES id, input, op, ret, event, copy

\* The argument of the operations that take none but the identity itself.
NoInput == [kind |-> "none", v |-> <<>>]

vars == <<id, input, op, ret, event, copy>>

Init ==
  /\ id \in Ids
  /\ \/ input = NoInput
     \/ \E s \in StrInputs(id) : input = [kind |-> "str", v |-> s]
     \/ \E d \in Digests : input = [kind |-> "bytes", v |-> d]
     \/ \E o \in Ids : input = [kind |-> "id", v |-> o]
  /\ op = "new"
  /\ ret = <<>>
  /\ event = NoEvent
  /\ copy = NoEvent

Returns(name, value) ==
  /\ op' = name
  /\ ret' = value
  /\ UNCHANGED <<id, input, event, copy>>

ToBytes ==
  /\ input = NoInput
  /\ Returns("to_bytes", SCOutputEventId_to_bytes(id))

IntoBytes ==
  /\ input = NoInput
  /\ Returns("into_bytes", SCOutputEventId_into_bytes(id))

ToBs58Check ==
  /\ input = NoInput
  /\ Returns("to_bs58_check", SCOutputEventId_to_bs58_check(id))

FromBytes ==
  /\ input.kind = "bytes"
  /\ Returns("from_bytes", SCOutputEventId_from_bytes(input.v))

FromBs58Check ==
  /\ input.kind = "str"
  /\ Returns("from_bs58_check", SCOutputEventId_from_bs58_check(input.v))

FromStr ==
  /\ input.kind = "str"
  /\ Returns("from_str", SCOutputEventId_from_str(input.v))

Eq ==
  /\ input.kind = "id"
  /\ Returns("eq", SCOutputEventId_eq(id, input.v))

Cmp ==
  /\ input.kind = "id"
  /\ Returns("cmp", SCOutputEventId_cmp(id, input.v))

\* The example of to_bytes and from_bytes: encode, then decode what came out.
BytesRoundTrip ==
  /\ input = NoInput
  /\ Returns("bytes_round_trip",
             SCOutputEventId_from_bytes(SCOutputEventId_to_bytes(id)))

\* The example of into_bytes.
IntoBytesRoundTrip ==
  /\ input = NoInput
  /\ Returns("into_bytes_round_trip",
             SCOutputEventId_from_bytes(SCOutputEventId_into_bytes(id)))

\* The example of to_bs58_check and from_bs58_check.
TextRoundTrip ==
  /\ input = NoInput
  /\ Returns("text_round_trip",
             SCOutputEventId_from_bs58_check(SCOutputEventId_to_bs58_check(id)))

HashKey ==
  /\ input.kind = "id"
  /\ Returns("hash", <<SCOutputEventId_hash(id), SCOutputEventId_hash(input.v)>>)

Next ==
  \/ ToBytes
  \/ IntoBytes
  \/ ToBs58Check
  \/ FromBytes
  \/ FromBs58Check
  \/ FromStr
  \/ BytesRoundTrip
  \/ IntoBytesRoundTrip
  \/ TextRoundTrip
  \/ Eq
  \/ Cmp
  \/ HashKey

Spec == Init /\ [][Next]_vars

(***************************************************************************)
(* Events: an SCOutputEvent is constructed around an identity with a       *)
(* context whose call stack is the supplied sequence, then read and cloned.*)
(***************************************************************************)
InitEvent ==
  /\ id \in Ids
  /\ \E c \in CallStacks, ro \in BOOLEAN, blk \in {NoBlock, SomeBlock} :
       /\ input = [kind |-> "call_stack", v |-> c]
       /\ event = SCOutputEvent(id,
                    EventExecutionContext("slot", blk, ro, 0, c), "{}")
  /\ op = "new"
  /\ ret = <<>>
  /\ copy = NoEvent

ReadCallStack ==
  /\ op' = "call_stack"
  /\ ret' = event.context.call_stack
  /\ UNCHANGED <<id, input, event, copy>>

CloneContext ==
  /\ op' = "clone_context"
  /\ copy' = EventExecutionContext_clone(event.context)
  /\ ret' = copy'.call_stack
  /\ UNCHANGED <<id, input, event>>

CloneEvent ==
  /\ op' = "clone_event"
  /\ copy' = SCOutputEvent_clone(event)
  /\ ret' = copy'.context.call_stack
  /\ UNCHANGED <<id, input, event>>

NextEvent ==
  \/ ReadCallStack
  \/ CloneContext
  \/ CloneEvent

SpecEvent == InitEvent /\ [][NextEvent]_vars

(***************************************************************************)
(* Properties.                                                             *)
(***************************************************************************)
DecodeOps ==
  {"from_bytes", "from_bs58_check", "from_str",
   "bytes_round_trip", "into_bytes_round_trip", "text_round_trip"}

\* a is lexicographically less than b: a proper prefix of it, or smaller at
\* the first position where they differ.
LexLess(a, b) ==
  \/ Len(a) < Len(b) /\ \A i \in 1..Len(a) : a[i] = b[i]
  \/ \E k \in 1..Len(a) :
       /\ k <= Len(b)
       /\ a[k] < b[k]
       /\ \A i \in 1..(k - 1) : a[i] = b[i]

\* s and t have the same length and differ in exactly one character.
OneCharChanged(s, t) ==
  /\ Len(s) = Len(t)
  /\ Cardinality({i \in 1..Len(s) : s[i] # t[i]}) = 1

\* The text s is not base58, or holds no checksum, or holds a checksum that
\* is not the one of its payload.
Corrupted(s) ==
  LET raw == bs58_decode(s)
  IN \/ ~raw.ok
     \/ Len(raw.val) < CHECKSUM_LEN
     \/ LET n == Len(raw.val) - CHECKSUM_LEN
        IN SubSeq(raw.val, n + 1, Len(raw.val)) # checksum(SubSeq(raw.val, 1, n))

\* C1: decoding the bytes that to_bytes produced for an identity returns Ok
\* of an identity equal to it, never an error and never another identity.
C1_ByteRoundTrip ==
  /\ op = "bytes_round_trip" => ret = Ok(id) /\ SCOutputEventId_eq(ret.val, id)
  /\ (op = "from_bytes" /\ input.v = SCOutputEventId_to_bytes(id)) => ret = Ok(id)

C1_Witness ==
  /\ op = "bytes_round_trip"
  /\ ret.ok
  /\ ret.val.hash[1] # ret.val.hash[EVENT_ID_SIZE_BYTES]

\* C2: decoding the text that to_bs58_check produced for an identity returns
\* Ok of an identity equal to it.
C2_TextRoundTrip ==
  /\ op = "text_round_trip" => ret = Ok(id) /\ SCOutputEventId_eq(ret.val, id)
  /\ (op = "from_bs58_check" /\ input.v = SCOutputEventId_to_bs58_check(id))
       => ret = Ok(id)

C2_Witness ==
  /\ op = "text_round_trip"
  /\ ret.ok
  /\ ret.val.hash[1] = 0

C5_CorruptedTextRejected ==
  op = "from_bs58_check" =>
    /\ Corrupted(input.v) => ret = Err("HashError")
    /\ ret.ok => SCOutputEventId_to_bs58_check(ret.val) = input.v

C5_Witness ==
  /\ op = "from_bs58_check"
  /\ OneCharChanged(input.v, SCOutputEventId_to_bs58_check(id))
  /\ bs58_decode(input.v).ok
  /\ ret = Err("HashError")

\* C6: the derived order is total and is the lexicographic order of the byte
\* encodings: Less exactly when a.to_bytes() is lexicographically less,
\* Greater exactly when it is greater, Equal exactly when they are the same.
C6_OrderingConsistency ==
  op = "cmp" =>
    LET a == SCOutputEventId_to_bytes(id)
        b == SCOutputEventId_to_bytes(input.v)
    IN /\ ret \in {"Less", "Equal", "Greater"}
       /\ (ret = "Less") <=> LexLess(a, b)
       /\ (ret = "Greater") <=> LexLess(b, a)
       /\ (ret = "Equal") <=> (a = b)

C6_Witness ==
  /\ op = "cmp"
  /\ ret = "Less"
  /\ id.hash[EVENT_ID_SIZE_BYTES] > input.v.hash[EVENT_ID_SIZE_BYTES]

\* C7: two identities are equal exactly when their byte encodings are the
\* same, and equal identities have the same text and the same container hash.
C7_StructuralEquality ==
  /\ op = "eq" =>
       /\ ret <=> (SCOutputEventId_to_bytes(id) = SCOutputEventId_to_bytes(input.v))
       /\ ret => SCOutputEventId_to_bs58_check(id)
                   = SCOutputEventId_to_bs58_check(input.v)
  /\ op = "hash" =>
       (SCOutputEventId_eq(id, input.v) => ret[1] = ret[2])

C7_Witness ==
  /\ op = "eq"
  /\ ret = FALSE
  /\ id.hash[1] = input.v.hash[1]

\* C8: the call stack of a constructed context reads back as the sequence it
\* was constructed with, in the same order and with repeated addresses kept,
\* from the event and from a clone of the context or of the event.
C8_CallStackPreserved ==
  /\ event.context.call_stack = input.v
  /\ op \in {"call_stack", "clone_context", "clone_event"} =>
       /\ ret = input.v
       /\ Len(ret) = Len(input.v)
       /\ Len(ret) > 0 => ret[Len(ret)] = input.v[Len(input.v)]
  /\ op = "clone_context" => copy.call_stack = input.v
  /\ op = "clone_event" => copy.context.call_stack = input.v

C8_Witness ==
  /\ op = "clone_event"
  /\ \E i, j \in 1..Len(input.v) : i < j /\ input.v[i] > input.v[j]
  /\ \E i, j \in 1..Len(input.v) : i < j /\ input.v[i] = input.v[j]
  /\ ret = input.v

\* C9: to_bytes returns exactly EVENT_ID_SIZE_BYTES bytes, the bytes of the
\* digest in the digest's own encoding, with nothing added in front.
C9_FixedSizeEncoding ==
  op = "to_bytes" =>
    /\ Len(ret) = EVENT_ID_SIZE_BYTES
    /\ ret = Hash_to_bytes(id.hash)
    /\ \A i \in 1..EVENT_ID_SIZE_BYTES : ret[i] = id.hash[i]

C9_Witness ==
  /\ op = "to_bytes"
  /\ Len(ret) = EVENT_ID_SIZE_BYTES
  /\ ret[1] # ret[MidPos]

C10_Results ==
  /\ op = "into_bytes" => ret = SCOutputEventId_to_bytes(id)
  /\ op = "into_bytes_round_trip" => ret = Ok(id)

C10_Step ==
  /\ (op' = op /\ op \in {"to_bytes", "to_bs58_check"}) => ret' = ret
  /\ SCOutputEventId_eq(id', id)

\* C10: into_bytes returns what to_bytes returns, so its bytes decode back to
\* the identity; to_bytes and to_bs58_check called again return the same
\* result, and the identity stays equal to what it was.
C10_EncodersAgree == []C10_Results /\ [][C10_Step]_vars

C10_Witness ==
  /\ op = "into_bytes"
  /\ ret = SCOutputEventId_to_bytes(id)
  /\ ret[1] # ret[EVENT_ID_SIZE_BYTES]
====
